---- MODULE Spec2Model ----
(***************************************************************************)
(* Model of the upstream-IP external processor (pkg/ext-proc/server.go):   *)
(* the attribute extractor extractUpstreamIP, the address classifier       *)
(* isUpstreamIPSafe, and the per-stream session loop server.Process.       *)
(*                                                                         *)
(* Go strings are TLA+ strings, read one byte at a time with SubSeq; a     *)
(* net.IP is the 16-byte sequence net.ParseIP returns, or Nil.             *)
(***************************************************************************)
EXTENDS Integers, Sequences, FiniteSets, TLC

VARIABLES
    pc,        \* position of Process in its loop: "select", "recv", "send", "done"
    canceled,  \* srv.Context() is done
    reqs,      \* the ProcessingRequests Recv has returned, in order
    resp,      \* the local resp of the current iteration
    sends,     \* every srv.Send call performed: request index, message, error or not
    result,    \* what Process returned, "running" before it returns
    call,      \* the last direct call of one of the two pure functions
    streams,   \* the host's streams: for each, the state of its own Process call
    run        \* position of Run: "waiting", "signaled", "draining", "returned"

vars == <<pc, canceled, reqs, resp, sends, result, call, streams, run>>

-----------------------------------------------------------------------------
(* Bytes and strings                                                       *)

Char(s, i) == SubSeq(s, i, i)

RECURSIVE IndexFrom(_, _, _)
\* least index >= i at which byte c stands in s, 0 when there is none
IndexFrom(s, c, i) ==
    IF i > Len(s) THEN 0
    ELSE IF Char(s, i) = c THEN i
    ELSE IndexFrom(s, c, i + 1)

IndexByte(s, c) == IndexFrom(s, c, 1)

HasPrefix(s, p) == Len(s) >= Len(p) /\ SubSeq(s, 1, Len(p)) = p

TrimPrefix(s, p) == IF HasPrefix(s, p) THEN SubSeq(s, Len(p) + 1, Len(s)) ELSE s

\* strings.Split(s, sep)[0] for a one-byte separator
SplitFirst(s, sep) ==
    LET i == IndexByte(s, sep)
    IN  IF i = 0 THEN s ELSE SubSeq(s, 1, i - 1)

DecDigits == "0123456789"
LowerHex == "0123456789abcdef"
UpperHex == "0123456789ABCDEF"

IsDigit(c) == IndexByte(DecDigits, c) # 0
DigitVal(c) == IndexByte(DecDigits, c) - 1

IsHex(c) == IndexByte(LowerHex, c) # 0 \/ IndexByte(UpperHex, c) # 0
HexVal(c) ==
    IF IndexByte(LowerHex, c) # 0 THEN IndexByte(LowerHex, c) - 1
    ELSE IndexByte(UpperHex, c) - 1

\* b & m for bytes, m a mask of leading one bits (0x80, 0xc0, 0xf0, 0xfe, 0xff)
AndHigh(b, m) == (b \div (256 - m)) * (256 - m)

Zeros(n) == [i \in 1..n |-> 0]

-----------------------------------------------------------------------------
(* net.ParseIP: the textual forms it accepts and the 16 bytes it returns.   *)
(* A nil net.IP is the empty byte sequence.                                *)

NilIP == <<>>

RECURSIVE parseIPv4Scan(_, _, _, _, _)
\* the byte loop of the dotted-decimal parser: i is the byte being read,
\* val and digLen the octet being accumulated, fields the octets finished
parseIPv4Scan(s, i, val, digLen, fields) ==
    IF i > Len(s)
    THEN IF Len(fields) < 3 THEN NilIP ELSE Append(fields, val)
    ELSE LET c == Char(s, i)
         IN  IF IsDigit(c)
             THEN IF digLen = 1 /\ val = 0 THEN NilIP
                  ELSE IF val * 10 + DigitVal(c) > 255 THEN NilIP
                  ELSE parseIPv4Scan(s, i + 1, val * 10 + DigitVal(c), digLen + 1, fields)
             ELSE IF c = "."
             THEN IF i = 1 \/ i = Len(s) \/ Char(s, i - 1) = "." THEN NilIP
                  ELSE IF Len(fields) = 3 THEN NilIP
                  ELSE parseIPv4Scan(s, i + 1, 0, 0, Append(fields, val))
             ELSE NilIP

\* four octets, or NilIP
parseIPv4Fields(s) == parseIPv4Scan(s, 1, 0, 0, <<>>)

RECURSIVE scanHex(_, _, _)
\* one colon-separated group: the number of hex digits read and their value;
\* a fifth digit is an error
scanHex(s, off, acc) ==
    IF off < Len(s) /\ IsHex(Char(s, off + 1))
    THEN IF off > 3 \/ acc * 16 + HexVal(Char(s, off + 1)) > 65535
         THEN [err |-> TRUE, off |-> off, acc |-> acc]
         ELSE scanHex(s, off + 1, acc * 16 + HexVal(Char(s, off + 1)))
    ELSE [err |-> FALSE, off |-> off, acc |-> acc]

parseIPv6Err == [err |-> TRUE, ip |-> <<>>, ellipsis |-> -1, rest |-> ""]

RECURSIVE parseIPv6Loop(_, _, _)
\* the group loop: s is the text left, ip the bytes filled so far, ellipsis
\* the byte offset of "::" (-1 for none). An error, or the bytes, the
\* ellipsis and the text left over when the loop ends.
parseIPv6Loop(s, ip, ellipsis) ==
    IF Len(ip) >= 16 THEN [err |-> FALSE, ip |-> ip, ellipsis |-> ellipsis, rest |-> s]
    ELSE
    LET h == scanHex(s, 0, 0)
    IN  IF h.err THEN parseIPv6Err
        ELSE IF h.off = 0 THEN parseIPv6Err
        ELSE IF h.off < Len(s) /\ Char(s, h.off + 1) = "."
        THEN IF ellipsis < 0 /\ Len(ip) # 12 THEN parseIPv6Err
             ELSE IF Len(ip) + 4 > 16 THEN parseIPv6Err
             ELSE LET v4 == parseIPv4Fields(s)
                  IN  IF v4 = NilIP THEN parseIPv6Err
                      ELSE [err |-> FALSE, ip |-> ip \o v4, ellipsis |-> ellipsis,
                            rest |-> ""]
        ELSE
        LET ip2 == ip \o <<h.acc \div 256, h.acc % 256>>
            s2 == SubSeq(s, h.off + 1, Len(s))
        IN  IF Len(s2) = 0
            THEN [err |-> FALSE, ip |-> ip2, ellipsis |-> ellipsis, rest |-> ""]
            ELSE IF Char(s2, 1) # ":" THEN parseIPv6Err
            ELSE IF Len(s2) = 1 THEN parseIPv6Err
            ELSE LET s3 == SubSeq(s2, 2, Len(s2))
                 IN  IF Char(s3, 1) = ":"
                     THEN IF ellipsis >= 0 THEN parseIPv6Err
                          ELSE IF Len(s3) = 1
                          THEN [err |-> FALSE, ip |-> ip2, ellipsis |-> Len(ip2),
                                rest |-> ""]
                          ELSE parseIPv6Loop(SubSeq(s3, 2, Len(s3)), ip2, Len(ip2))
                     ELSE parseIPv6Loop(s3, ip2, ellipsis)

\* sixteen bytes, or NilIP; a zone ("%eth0") makes net.ParseIP return nil
parseIPv6(s) ==
    IF IndexByte(s, "%") # 0 THEN NilIP
    ELSE
    LET lead == Len(s) >= 2 /\ SubSeq(s, 1, 2) = "::"
        body == IF lead THEN SubSeq(s, 3, Len(s)) ELSE s
    IN  IF lead /\ Len(body) = 0 THEN Zeros(16)
        ELSE
        LET r == parseIPv6Loop(body, <<>>, IF lead THEN 0 ELSE -1)
        IN  IF r.err THEN NilIP
            ELSE IF Len(r.rest) # 0 THEN NilIP
            ELSE IF Len(r.ip) < 16
            THEN IF r.ellipsis < 0 THEN NilIP
                 ELSE SubSeq(r.ip, 1, r.ellipsis) \o Zeros(16 - Len(r.ip))
                      \o SubSeq(r.ip, r.ellipsis + 1, Len(r.ip))
            ELSE IF r.ellipsis >= 0 THEN NilIP
            ELSE r.ip

v4InV6Prefix == Zeros(10) \o <<255, 255>>

RECURSIVE parseAddrFrom(_, _)
\* the first of '.', ':' and '%' in s decides the form
parseAddrFrom(s, i) ==
    IF i > Len(s) THEN NilIP
    ELSE IF Char(s, i) = "."
    THEN LET v4 == parseIPv4Fields(s)
         IN  IF v4 = NilIP THEN NilIP ELSE v4InV6Prefix \o v4
    ELSE IF Char(s, i) = ":" THEN parseIPv6(s)
    ELSE IF Char(s, i) = "%" THEN NilIP
    ELSE parseAddrFrom(s, i + 1)

\* ParseIP as a parser without the dotted-decimal tail of an IPv6 literal
ParseIP_NoEmbeddedIPv4(s) ==
    IF IndexByte(s, ":") # 0 /\ IndexByte(s, ".") # 0 THEN NilIP
    ELSE parseAddrFrom(s, 1)

\* net.ParseIP(s): always the 16-byte form, IPv4 as ::ffff:a.b.c.d
ParseIP(s) == parseAddrFrom(s, 1)

-----------------------------------------------------------------------------
(* The net.IP and net.IPNet methods the classifier calls                   *)

\* ip.To4(): the four bytes of an IPv4 or IPv4-mapped address, else nil
To4(ip) ==
    IF Len(ip) = 4 THEN ip
    ELSE IF Len(ip) = 16 /\ SubSeq(ip, 1, 12) = v4InV6Prefix THEN SubSeq(ip, 13, 16)
    ELSE NilIP

\* ip.To16()
To16(ip) ==
    IF Len(ip) = 4 THEN v4InV6Prefix \o ip
    ELSE IF Len(ip) = 16 THEN ip
    ELSE NilIP

IPv4zero == v4InV6Prefix \o <<0, 0, 0, 0>>
IPv6unspecified == Zeros(16)
IPv6loopback == Zeros(15) \o <<1>>

\* ip.Equal(x): an IPv4 address and its 16-byte form are equal
IPEqual(ip, x) ==
    IF Len(ip) = Len(x) THEN ip = x
    ELSE IF Len(ip) = 4 /\ Len(x) = 16 THEN v4InV6Prefix \o ip = x
    ELSE IF Len(ip) = 16 /\ Len(x) = 4 THEN ip = v4InV6Prefix \o x
    ELSE FALSE

IsLoopback(ip) ==
    IF To4(ip) # NilIP THEN To4(ip)[1] = 127
    ELSE IPEqual(ip, IPv6loopback)

IsUnspecified(ip) == IPEqual(ip, IPv4zero) \/ IPEqual(ip, IPv6unspecified)

IsLinkLocalUnicast(ip) ==
    IF To4(ip) # NilIP THEN To4(ip)[1] = 169 /\ To4(ip)[2] = 254
    ELSE Len(ip) = 16 /\ ip[1] = 254 /\ AndHigh(ip[2], 192) = 128

IsMulticast(ip) ==
    IF To4(ip) # NilIP THEN AndHigh(To4(ip)[1], 240) = 224
    ELSE Len(ip) = 16 /\ ip[1] = 255

IsPrivate(ip) ==
    IF To4(ip) # NilIP
    THEN \/ To4(ip)[1] = 10
         \/ To4(ip)[1] = 172 /\ AndHigh(To4(ip)[2], 240) = 16
         \/ To4(ip)[1] = 192 /\ To4(ip)[2] = 168
    ELSE Len(ip) = 16 /\ AndHigh(ip[1], 254) = 252

\* the *net.IPNet values net.ParseCIDR returns for the four literals
testNet1 == [IP |-> <<192, 0, 2, 0>>, Mask |-> <<255, 255, 255, 0>>]
testNet2 == [IP |-> <<198, 51, 100, 0>>, Mask |-> <<255, 255, 255, 0>>]
testNet3 == [IP |-> <<203, 0, 113, 0>>, Mask |-> <<255, 255, 255, 0>>]
testNet6 == [IP |-> <<32, 1, 13, 184>> \o Zeros(12),
             Mask |-> <<255, 255, 255, 255>> \o Zeros(12)]

\* n.Contains(ip): every mask here is whole bytes of ones, then zeros
NetContains(n, ip) ==
    LET x == IF To4(ip) # NilIP THEN To4(ip) ELSE ip
    IN  /\ Len(x) = Len(n.IP)
        /\ \A i \in 1..Len(x) : AndHigh(n.IP[i], n.Mask[i]) = AndHigh(x[i], n.Mask[i])

-----------------------------------------------------------------------------
(* isUpstreamIPSafe: the address classifier                                *)

Verdict(safe, reason) == [safe |-> safe, reason |-> reason]

RECURSIVE isUpstreamIPSafe(_)
isUpstreamIPSafe(ipStr) ==
    LET ip == ParseIP(ipStr)
    IN  IF ipStr = "" THEN Verdict(FALSE, "empty IP address")
        ELSE IF ip = NilIP THEN Verdict(FALSE, "invalid IP address")
        ELSE IF IsLoopback(ip) THEN Verdict(FALSE, "localhost/loopback address is blocked")
        ELSE IF IsUnspecified(ip) THEN Verdict(FALSE, "unspecified address is blocked")
        ELSE IF IsLinkLocalUnicast(ip) THEN Verdict(FALSE, "link-local address is blocked")
        ELSE IF IsMulticast(ip) THEN Verdict(FALSE, "multicast address is blocked")
        ELSE IF IsPrivate(ip)
        THEN Verdict(FALSE, "private network address is blocked (RFC1918)")
        ELSE IF ipStr = "169.254.169.254"
        THEN Verdict(FALSE, "AWS metadata service IP is blocked")
        ELSE IF ipStr = "fd00:ec2::254"
        THEN Verdict(FALSE, "GCP metadata service IPv6 is blocked")
        ELSE IF /\ To4(ip) = NilIP /\ To16(ip) # NilIP
                /\ HasPrefix(ipStr, "::ffff:")
                /\ ~isUpstreamIPSafe(TrimPrefix(ipStr, "::ffff:")).safe
        THEN Verdict(FALSE, "IPv4-mapped IPv6 address blocked: "
                            \o isUpstreamIPSafe(TrimPrefix(ipStr, "::ffff:")).reason)
        ELSE IF \/ NetContains(testNet1, ip) \/ NetContains(testNet2, ip)
                \/ NetContains(testNet3, ip) \/ NetContains(testNet6, ip)
        THEN Verdict(FALSE, "documentation/test network range is blocked")
        ELSE Verdict(TRUE, "")

-----------------------------------------------------------------------------
(* extractUpstreamIP: the attribute extractor                              *)
(*                                                                         *)
(* attributes is a map[string]*structpb.Struct: [isNil, m], m a function   *)
(* from the namespaces present to a Struct [isNil, fieldsNil, fields],     *)
(* fields a function from the keys present to a Value [kind, str].         *)

ExtProcNamespace == "envoy.filters.http.ext_proc"
UpstreamAddressKey == "upstream.address"

NilValue == [kind |-> "nil", str |-> ""]
StringValue(s) == [kind |-> "string", str |-> s]
NumberValue == [kind |-> "number", str |-> ""]

NoFields == [k \in {} |-> NilValue]
NilStruct == [isNil |-> TRUE, fieldsNil |-> TRUE, fields |-> NoFields]
NilFieldsStruct == [isNil |-> FALSE, fieldsNil |-> TRUE, fields |-> NoFields]
Struct(fields) == [isNil |-> FALSE, fieldsNil |-> FALSE, fields |-> fields]

NoEntries == [k \in {} |-> NilStruct]
NilAttributes == [isNil |-> TRUE, m |-> NoEntries]
Attributes(m) == [isNil |-> FALSE, m |-> m]

\* v.GetStringValue(): "" for a nil Value and for every kind but string
GetStringValue(v) == IF v.kind = "string" THEN v.str ELSE ""

\* attributes[key]: the zero value (a nil *Struct) for a key not present
MapIndex(attributes, key) ==
    IF key \in DOMAIN attributes.m THEN attributes.m[key] ELSE NilStruct

\* extractUpstreamIP with the port split off as net.SplitHostPort would:
\* the text in brackets, else the text before a single colon, else all of it
extractUpstreamIP_SplitHostPort(attributes) ==
    IF attributes.isNil THEN ""
    ELSE LET filterAttributes == MapIndex(attributes, ExtProcNamespace)
             v == IF /\ ~filterAttributes.isNil
                     /\ ~filterAttributes.fieldsNil
                     /\ UpstreamAddressKey \in DOMAIN filterAttributes.fields
                  THEN GetStringValue(filterAttributes.fields[UpstreamAddressKey])
                  ELSE ""
             colon == IndexByte(v, ":")
         IN  IF HasPrefix(v, "[") /\ IndexByte(v, "]") # 0
             THEN SubSeq(v, 2, IndexByte(v, "]") - 1)
             ELSE IF colon # 0 /\ IndexFrom(v, ":", colon + 1) = 0
             THEN SubSeq(v, 1, colon - 1)
             ELSE v

extractUpstreamIP(attributes) ==
    IF attributes.isNil THEN ""
    ELSE LET filterAttributes == MapIndex(attributes, ExtProcNamespace)
         IN  IF filterAttributes.isNil \/ filterAttributes.fieldsNil THEN ""
             ELSE IF /\ UpstreamAddressKey \in DOMAIN filterAttributes.fields
                     /\ filterAttributes.fields[UpstreamAddressKey].kind # "nil"
                     /\ GetStringValue(filterAttributes.fields[UpstreamAddressKey]) # ""
             THEN SplitFirst(GetStringValue(filterAttributes.fields[UpstreamAddressKey]), ":")
             ELSE ""

-----------------------------------------------------------------------------
(* Messages of the external-processing stream                              *)

StatusCode_Forbidden == 403

NoMetadata == [present |-> FALSE, blocked |-> FALSE, reason |-> ""]

\* a nil *ProcessingResponse
NilResponse ==
    [kind |-> "nil", code |-> 0, body |-> "", status |-> "", metadata |-> NoMetadata]

\* ProcessingResponse_ImmediateResponse with the DynamicMetadata struct
ImmediateResponse(reason) ==
    [kind |-> "ImmediateResponse", code |-> StatusCode_Forbidden, body |-> reason,
     status |-> "",
     metadata |-> [present |-> TRUE, blocked |-> TRUE, reason |-> reason]]

\* ProcessingResponse_RequestHeaders with CommonResponse_CONTINUE
ContinueResponse ==
    [kind |-> "RequestHeaders", code |-> 0, body |-> "", status |-> "CONTINUE",
     metadata |-> NoMetadata]

ProcessingRequest(phase, attributes) == [phase |-> phase, attributes |-> attributes]

\* PolicyDecision with isSafe left true when no address was extracted
PolicyDecision_FailOpen(req) ==
    LET upstreamIP == extractUpstreamIP(req.attributes)
    IN  IF upstreamIP # "" THEN isUpstreamIPSafe(upstreamIP)
        ELSE Verdict(TRUE, "")

\* PolicyDecision without its else branch: the classifier sees "" too
PolicyDecision_NoElse(req) == isUpstreamIPSafe(extractUpstreamIP(req.attributes))

\* lines 159-172 of Process: the verdict for one received request
PolicyDecision(req) ==
    LET upstreamIP == extractUpstreamIP(req.attributes)
    IN  IF upstreamIP # "" THEN isUpstreamIPSafe(upstreamIP)
        ELSE Verdict(FALSE, "unable to extract upstream IP address")

\* BuildResponse with the DynamicMetadata struct left out of the deny response
BuildResponse_NoMetadata(req) ==
    IF req.phase = "RequestHeaders"
    THEN IF ~PolicyDecision(req).safe
         THEN [ImmediateResponse(PolicyDecision(req).reason) EXCEPT !.metadata = NoMetadata]
         ELSE ContinueResponse
    ELSE NilResponse

\* BuildResponse with a breaker shared by all streams: once any stream has
\* been canceled or has had a Send fail, every header request is denied
BuildResponse_SharedBreaker(req) ==
    LET tripped == \E s \in DOMAIN streams :
                      \/ streams[s].canceled
                      \/ \E k \in 1..Len(streams[s].sends) : streams[s].sends[k].err
    IN  IF req.phase = "RequestHeaders"
        THEN IF tripped THEN ImmediateResponse("upstream check suspended")
             ELSE IF ~PolicyDecision(req).safe
             THEN ImmediateResponse(PolicyDecision(req).reason)
             ELSE ContinueResponse
        ELSE NilResponse

\* lines 174-214 of Process: resp as it stands when srv.Send is reached. The
\* default case assigns nothing, so for any other phase resp is still nil.
BuildResponse(req) ==
    IF req.phase = "RequestHeaders"
    THEN IF ~PolicyDecision(req).safe
         THEN ImmediateResponse(PolicyDecision(req).reason)
         ELSE ContinueResponse
    ELSE NilResponse

-----------------------------------------------------------------------------
(* The inputs                                                              *)

MaxMsgs == 2     \* messages one peer sends on the stream

Port == ":443"

ValidIPv4 ==
    {"8.8.8.8", "93.184.216.34", "1.1.1.1", "127.0.0.1", "127.255.255.254",
     "126.255.255.255", "128.0.0.1", "0.0.0.0", "0.1.2.3", "169.254.169.254",
     "169.254.0.1", "169.253.1.1", "224.0.0.1", "239.255.255.255", "223.255.255.255",
     "10.0.0.5", "11.0.0.1", "172.16.0.1", "172.31.255.255", "172.32.0.1",
     "172.15.0.1", "192.168.1.1", "192.169.1.1", "192.0.2.1", "192.0.3.1",
     "198.51.100.7", "198.51.101.7", "203.0.113.9", "203.0.114.9"}

ValidIPv6 ==
    {"::1", "::", "::2", "fe80::1", "febf::1", "fec0::1", "ff02::1", "fc00::1",
     "fd00:ec2::254", "fd12:3456::1", "fe00::1", "2001:db8::1", "2001:db8:ffff::1",
     "2001:db9::1", "2001:4860:4860::8888", "2606:4700:4700::1111",
     "::ffff:10.0.0.5", "::ffff:8.8.8.8", "::ffff:127.0.0.1", "::ffff:a00:5",
     "::FFFF:192.0.2.1", "0:0:0:0:0:ffff:808:808", "::ffff:0:1:2",
     "0:0:0:0:ffff:0:1:2", "1:2:3:4:5:6:7:8"}

NotIP ==
    {"localhost", "example.com", "1.2.3", "1.2.3.4.5", "256.1.1.1", "01.2.3.4",
     "8.8.8.8.", "2001", "1::2::3", "12345::1", "fe80::1%eth0", "::ffff:1.2.3",
     "1:2:3:4:5:6:7:8:9", "/var/run/app.sock"}

Hosts == ValidIPv4 \cup ValidIPv6 \cup NotIP

\* the texts handed to the classifier directly
Literals == Hosts \cup {""} \cup {"[" \o h \o "]" : h \in ValidIPv6}

\* the forms of an upstream socket address: "host", "[host]:port" and, for a
\* host without a colon of its own, "host:port"
AddressForms(h) ==
    {h, "[" \o h \o "]" \o Port}
    \cup (IF IndexByte(h, ":") = 0 THEN {h \o Port} ELSE {})

AddressValues == UNION {AddressForms(h) : h \in Hosts}

WithFields(fields) == Attributes([k \in {ExtProcNamespace} |-> Struct(fields)])
WithAddress(v) == WithFields([k \in {UpstreamAddressKey} |-> v])

\* the bundles that carry no usable upstream.address
AbsentAttributes ==
    {NilAttributes,
     Attributes(NoEntries),
     Attributes([k \in {"envoy.filters.http.router"} |-> Struct(NoFields)]),
     Attributes([k \in {ExtProcNamespace} |-> NilStruct]),
     Attributes([k \in {ExtProcNamespace} |-> NilFieldsStruct]),
     WithFields(NoFields),
     WithFields([k \in {"source.address"} |-> StringValue("8.8.8.8:443")]),
     WithAddress(NilValue),
     WithAddress(NumberValue),
     WithAddress(StringValue(""))}

AttributeBundles == AbsentAttributes \cup {WithAddress(StringValue(v)) : v \in AddressValues}

\* what a peer sends on one stream
SessionAddresses ==
    {"8.8.8.8:443", "93.184.216.34", "192.168.1.1:443", "169.254.169.254:443",
     "127.0.0.1:443", "192.0.2.1:443", "[2001:4860:4860::8888]:443",
     "2001:4860:4860::8888", "::ffff:10.0.0.5", "::ffff:8.8.8.8",
     "example.com:443"}

SessionAbsent ==
    {NilAttributes, Attributes(NoEntries), WithFields(NoFields),
     WithAddress(NumberValue), WithAddress(StringValue(""))}

SessionRequests ==
    {ProcessingRequest("RequestHeaders", a) :
        a \in SessionAbsent \cup {WithAddress(StringValue(v)) : v \in SessionAddresses}}
    \cup {ProcessingRequest(ph, a) :
            ph \in {"RequestBody", "ResponseHeaders"},
            a \in {NilAttributes, WithAddress(StringValue("8.8.8.8:443"))}}

-----------------------------------------------------------------------------
(* server.Process: one stream                                              *)

\* the streams the host serves concurrently
Streams == {"s1", "s2"}

HostMaxMsgs == 2     \* messages the host receives, over all its streams

HostRequests ==
    {ProcessingRequest("RequestHeaders", WithAddress(StringValue("8.8.8.8:443"))),
     ProcessingRequest("RequestHeaders", WithAddress(StringValue("192.168.1.1:443"))),
     ProcessingRequest("RequestBody", NilAttributes)}

\* a stream no peer has opened yet; acceptedIn records the position of Run at
\* the moment the stream's Process call was started
IdleStream ==
    [pc |-> "idle", canceled |-> FALSE, reqs |-> <<>>, resp |-> NilResponse,
     sends |-> <<>>, result |-> "running", acceptedIn |-> ""]

NoCall ==
    [fn |-> "none", ipStr |-> "", attributes |-> NilAttributes,
     verdict |-> Verdict(FALSE, ""), ip |-> ""]

Init ==
    /\ pc = "select"
    /\ canceled = FALSE
    /\ reqs = <<>>
    /\ resp = NilResponse
    /\ sends = <<>>
    /\ result = "running"
    /\ call = NoCall
    /\ streams = [s \in Streams |-> IdleStream]
    /\ run = "waiting"

\* Select without the look at ctx.Done(): the loop goes straight to Recv
Select_NoCheck ==
    /\ pc = "select"
    /\ pc' = "recv"
    /\ UNCHANGED <<canceled, reqs, resp, sends, result, call, streams, run>>

\* lines 146-150: the non-blocking look at ctx.Done()
Select ==
    /\ pc = "select"
    /\ IF canceled
       THEN pc' = "done" /\ result' = "ctx.Err"
       ELSE pc' = "recv" /\ result' = result
    /\ UNCHANGED <<canceled, reqs, resp, sends, call, streams, run>>

\* RecvMsg with a blocked request dropped: the loop continues without a Send
RecvMsg_SilentDrop ==
    /\ pc = "recv"
    /\ Len(reqs) < MaxMsgs
    /\ \E req \in SessionRequests :
          /\ reqs' = Append(reqs, req)
          /\ IF req.phase = "RequestHeaders" /\ ~PolicyDecision(req).safe
             THEN resp' = NilResponse /\ pc' = "select"
             ELSE resp' = BuildResponse(req) /\ pc' = "send"
    /\ UNCHANGED <<canceled, sends, result, call, streams, run>>

\* lines 152-214: Recv returns a message and resp is built for it. A message
\* that arrived before the cancellation can still be returned after it.
RecvMsg ==
    /\ pc = "recv"
    /\ Len(reqs) < MaxMsgs
    /\ \E req \in SessionRequests :
          /\ reqs' = Append(reqs, req)
          /\ resp' = BuildResponse(req)
    /\ pc' = "send"
    /\ UNCHANGED <<canceled, sends, result, call, streams, run>>

\* lines 153-154: the peer closed its side
RecvEOF ==
    /\ pc = "recv"
    /\ pc' = "done"
    /\ result' = "nil"
    /\ UNCHANGED <<canceled, reqs, resp, sends, call, streams, run>>

\* lines 155-157: any other receive error, a canceled stream included
RecvErr ==
    /\ pc = "recv"
    /\ pc' = "done"
    /\ result' = "status.Unknown"
    /\ UNCHANGED <<canceled, reqs, resp, sends, call, streams, run>>

\* one srv.Send call: the request it answers, the message, whether it
\* returned an error, and whether the context was already canceled
SendRecord(err) ==
    [req |-> Len(reqs), msg |-> resp, err |-> err, afterCancel |-> canceled]

\* lines 216-218: srv.Send(resp) hands the message to the transport; a nil
\* resp goes out as an empty ProcessingResponse. A canceled stream takes no
\* message, so there the Send fails.
SendOk ==
    /\ pc = "send"
    /\ ~canceled
    /\ sends' = Append(sends, SendRecord(FALSE))
    /\ resp' = NilResponse
    /\ pc' = "select"
    /\ UNCHANGED <<canceled, reqs, result, call, streams, run>>

\* SendErr with the failed Send tried again
SendErr_Retry ==
    /\ pc = "send"
    /\ sends' = Append(sends, SendRecord(TRUE))
    /\ Len(sends) < 2 * MaxMsgs
    /\ UNCHANGED <<pc, canceled, reqs, resp, result, call, streams, run>>

\* SendErr with the error returned: a failed Send ends the session
SendErr_Return ==
    /\ pc = "send"
    /\ sends' = Append(sends, SendRecord(TRUE))
    /\ resp' = NilResponse
    /\ pc' = "done"
    /\ result' = "status.Unknown"
    /\ UNCHANGED <<canceled, reqs, call, streams, run>>

\* lines 216-218: srv.Send(resp) fails; the error is logged and the loop goes on
SendErr ==
    /\ pc = "send"
    /\ sends' = Append(sends, SendRecord(TRUE))
    /\ resp' = NilResponse
    /\ pc' = "select"
    /\ UNCHANGED <<canceled, reqs, result, call, streams, run>>

\* the stream's context is canceled: the peer went away or the server stops
Cancel ==
    /\ pc # "done"
    /\ ~canceled
    /\ canceled' = TRUE
    /\ UNCHANGED <<pc, reqs, resp, sends, result, call, streams, run>>

Next == Select \/ RecvMsg \/ RecvEOF \/ RecvErr \/ SendOk \/ SendErr \/ Cancel

Spec == Init /\ [][Next]_vars

\* The goroutine that runs Process is scheduled: the look at ctx.Done() and
\* srv.Send return, and srv.Recv returns once the context is canceled. While
\* the stream is live, Recv blocks for as long as the peer sends nothing.
SpecLive ==
    /\ Init
    /\ [][Next]_vars
    /\ WF_vars(Select)
    /\ WF_vars(SendOk \/ SendErr)
    /\ WF_vars(canceled /\ (RecvMsg \/ RecvEOF \/ RecvErr))

-----------------------------------------------------------------------------
(* The two pure functions, called directly                                 *)

ClassifyCall ==
    \E s \in Literals :
        call' = [fn |-> "isUpstreamIPSafe", ipStr |-> s, attributes |-> NilAttributes,
                 verdict |-> isUpstreamIPSafe(s), ip |-> ""]

ExtractCall ==
    \E a \in AttributeBundles :
        call' = [fn |-> "extractUpstreamIP", ipStr |-> "", attributes |-> a,
                 verdict |-> Verdict(FALSE, ""), ip |-> extractUpstreamIP(a)]

NextFn ==
    \/ ClassifyCall /\ UNCHANGED <<pc, canceled, reqs, resp, sends, result, streams, run>>
    \/ ExtractCall /\ UNCHANGED <<pc, canceled, reqs, resp, sends, result, streams, run>>

SpecFn == Init /\ [][NextFn]_vars

-----------------------------------------------------------------------------
(* Run: the host. grpcServer.Serve starts one Process call per stream, each  *)
(* in its own goroutine with its own srv and ctx; the server struct has no   *)
(* fields. Run itself waits for a signal and then calls GracefulStop.        *)

processVars == <<pc, canceled, reqs, resp, sends, result, call>>

RECURSIVE SumReqs(_)
SumReqs(S) ==
    IF S = {} THEN 0
    ELSE LET s == CHOOSE x \in S : TRUE
         IN  Len(streams[s].reqs) + SumReqs(S \ {s})

\* the streams whose Process call has been started
Accepted == {s \in Streams : streams[s].pc # "idle"}

\* line 235: Serve accepts a stream and runs Process for it
Accept(s) ==
    /\ run \in {"waiting", "signaled"}
    /\ streams[s].pc = "idle"
    /\ streams' = [streams EXCEPT ![s].pc = "select", ![s].acceptedIn = run]
    /\ UNCHANGED <<run, processVars>>

\* lines 146-150 in the Process call of stream s
StreamSelect(s) ==
    /\ streams[s].pc = "select"
    /\ IF streams[s].canceled
       THEN streams' = [streams EXCEPT ![s].pc = "done", ![s].result = "ctx.Err"]
       ELSE streams' = [streams EXCEPT ![s].pc = "recv"]
    /\ UNCHANGED <<run, processVars>>

\* lines 152-214 in the Process call of stream s
StreamRecvMsg(s) ==
    /\ streams[s].pc = "recv"
    /\ SumReqs(Streams) < HostMaxMsgs
    /\ \E req \in HostRequests :
          streams' = [streams EXCEPT ![s].reqs = Append(@, req),
                                     ![s].resp = BuildResponse(req),
                                     ![s].pc = "send"]
    /\ UNCHANGED <<run, processVars>>

\* lines 153-154 in the Process call of stream s
StreamRecvEOF(s) ==
    /\ streams[s].pc = "recv"
    /\ streams' = [streams EXCEPT ![s].pc = "done", ![s].result = "nil"]
    /\ UNCHANGED <<run, processVars>>

\* lines 155-157 in the Process call of stream s
StreamRecvErr(s) ==
    /\ streams[s].pc = "recv"
    /\ streams' = [streams EXCEPT ![s].pc = "done", ![s].result = "status.Unknown"]
    /\ UNCHANGED <<run, processVars>>

StreamSendRecord(s, err) ==
    [req |-> Len(streams[s].reqs), msg |-> streams[s].resp, err |-> err,
     afterCancel |-> streams[s].canceled]

\* lines 216-218 in the Process call of stream s: Send succeeds
StreamSendOk(s) ==
    /\ streams[s].pc = "send"
    /\ ~streams[s].canceled
    /\ streams' = [streams EXCEPT ![s].sends = Append(@, StreamSendRecord(s, FALSE)),
                                  ![s].resp = NilResponse,
                                  ![s].pc = "select"]
    /\ UNCHANGED <<run, processVars>>

\* lines 216-218 in the Process call of stream s: Send fails
StreamSendErr(s) ==
    /\ streams[s].pc = "send"
    /\ streams' = [streams EXCEPT ![s].sends = Append(@, StreamSendRecord(s, TRUE)),
                                  ![s].resp = NilResponse,
                                  ![s].pc = "select"]
    /\ UNCHANGED <<run, processVars>>

\* the peer of stream s cancels or disconnects: the stream's ctx is done
StreamCancel(s) ==
    /\ streams[s].pc \notin {"idle", "done"}
    /\ ~streams[s].canceled
    /\ streams' = [streams EXCEPT ![s].canceled = TRUE]
    /\ UNCHANGED <<run, processVars>>

\* line 245: SIGINT or SIGTERM arrives on done and Run wakes up
Signal ==
    /\ run = "waiting"
    /\ run' = "signaled"
    /\ UNCHANGED <<streams, processVars>>

\* line 247: Run calls GracefulStop, which closes the listener and lets no
\* further stream start
GracefulStop ==
    /\ run = "signaled"
    /\ run' = "draining"
    /\ UNCHANGED <<streams, processVars>>

\* grpcServer.Stop in place of GracefulStop: every stream is canceled and the
\* call returns without waiting
GracefulStop_Return_Stop ==
    /\ run = "draining"
    /\ run' = "returned"
    /\ streams' = [s \in Streams |->
                     IF streams[s].pc \in {"idle", "done"} THEN streams[s]
                     ELSE [streams[s] EXCEPT !.canceled = TRUE]]
    /\ UNCHANGED processVars

\* lines 247-249: GracefulStop returns once every started Process call has
\* returned, and Run returns nil
GracefulStop_Return ==
    /\ run = "draining"
    /\ \A s \in Streams : streams[s].pc \in {"idle", "done"}
    /\ run' = "returned"
    /\ UNCHANGED <<streams, processVars>>

NextHost ==
    \/ \E s \in Streams :
          \/ Accept(s)
          \/ StreamSelect(s)
          \/ StreamRecvMsg(s)
          \/ StreamRecvEOF(s)
          \/ StreamRecvErr(s)
          \/ StreamSendOk(s)
          \/ StreamSendErr(s)
          \/ StreamCancel(s)
    \/ Signal
    \/ GracefulStop
    \/ GracefulStop_Return

SpecHost == Init /\ [][NextHost]_vars

-----------------------------------------------------------------------------
(* What the properties below speak of                                      *)

RECURSIVE ContainsFrom(_, _, _)
ContainsFrom(s, sub, i) ==
    IF i + Len(sub) - 1 > Len(s) THEN FALSE
    ELSE IF SubSeq(s, i, i + Len(sub) - 1) = sub THEN TRUE
    ELSE ContainsFrom(s, sub, i + 1)

\* the text s mentions sub
Mentions(s, sub) == ContainsFrom(s, sub, 1)

RECURSIVE CountFrom(_, _, _)
CountFrom(s, c, i) ==
    IF i > Len(s) THEN 0
    ELSE (IF Char(s, i) = c THEN 1 ELSE 0) + CountFrom(s, c, i + 1)

\* the upstream.address string a request carries, "" when it carries none
UpstreamAddress(attributes) ==
    IF /\ ~attributes.isNil
       /\ ExtProcNamespace \in DOMAIN attributes.m
       /\ ~attributes.m[ExtProcNamespace].isNil
       /\ ~attributes.m[ExtProcNamespace].fieldsNil
       /\ UpstreamAddressKey \in DOMAIN attributes.m[ExtProcNamespace].fields
       /\ attributes.m[ExtProcNamespace].fields[UpstreamAddressKey].kind = "string"
    THEN attributes.m[ExtProcNamespace].fields[UpstreamAddressKey].str
    ELSE ""

\* the host of "host", "host:port" or "[host]:port": the text in the brackets,
\* else the text before a single colon, else (an IPv6 literal) all of it
HostPortion(v) ==
    IF HasPrefix(v, "[") /\ IndexByte(v, "]") # 0 THEN SubSeq(v, 2, IndexByte(v, "]") - 1)
    ELSE IF CountFrom(v, ":", 1) = 1 THEN SubSeq(v, 1, IndexByte(v, ":") - 1)
    ELSE v

\* the leading bits of address x are those of prefix p
InPrefix(x, p, bits) ==
    /\ Len(x) = Len(p)
    /\ \A i \in 1..Len(x) :
          IF 8 * i <= bits THEN x[i] = p[i]
          ELSE IF 8 * (i - 1) >= bits THEN TRUE
          ELSE x[i] \div (2 ^ (8 * i - bits)) = p[i] \div (2 ^ (8 * i - bits))

\* the address a literal denotes: four bytes for IPv4 and for IPv4-mapped
\* IPv6, sixteen for any other IPv6, none when it is no IP literal
Denoted(s) ==
    LET ip == ParseIP(s)
    IN  IF ip = NilIP THEN NilIP
        ELSE IF SubSeq(ip, 1, 12) = Zeros(10) \o <<255, 255>> THEN SubSeq(ip, 13, 16)
        ELSE ip

V6(hi, lo) == <<hi \div 256, hi % 256>> \o Zeros(12) \o <<lo \div 256, lo % 256>>

LoopbackClass(x) == InPrefix(x, <<127, 0, 0, 0>>, 8) \/ x = V6(0, 1)
UnspecifiedClass(x) == x = <<0, 0, 0, 0>> \/ x = Zeros(16)
LinkLocalClass(x) == InPrefix(x, <<169, 254, 0, 0>>, 16) \/ InPrefix(x, V6(65152, 0), 10)
MulticastClass(x) == InPrefix(x, <<224, 0, 0, 0>>, 4) \/ InPrefix(x, V6(65280, 0), 8)
PrivateClass(x) ==
    \/ InPrefix(x, <<10, 0, 0, 0>>, 8)
    \/ InPrefix(x, <<172, 16, 0, 0>>, 12)
    \/ InPrefix(x, <<192, 168, 0, 0>>, 16)
    \/ InPrefix(x, V6(64512, 0), 7)
MetadataClass(x) ==
    \/ x = <<169, 254, 169, 254>>
    \/ x = <<253, 0, 14, 194>> \o Zeros(10) \o <<2, 84>>
DocumentationClass(x) ==
    \/ InPrefix(x, <<192, 0, 2, 0>>, 24)
    \/ InPrefix(x, <<198, 51, 100, 0>>, 24)
    \/ InPrefix(x, <<203, 0, 113, 0>>, 24)
    \/ InPrefix(x, <<32, 1, 13, 184>> \o Zeros(12), 32)

Denylisted(x) ==
    \/ LoopbackClass(x) \/ UnspecifiedClass(x) \/ LinkLocalClass(x)
    \/ MulticastClass(x) \/ PrivateClass(x) \/ MetadataClass(x)
    \/ DocumentationClass(x)

\* s is a non-empty, valid IP literal of no denylisted class
SafeLiteral(s) == s # "" /\ Denoted(s) # NilIP /\ ~Denylisted(Denoted(s))

\* the verdict of each request a peer can send, computed once
DecisionOf == [r \in SessionRequests |-> PolicyDecision(r)]

\* the requests whose upstream.address is present, non-empty and has a safe
\* IP literal as its host portion
SafeHostRequests ==
    {r \in SessionRequests :
        /\ UpstreamAddress(r.attributes) # ""
        /\ SafeLiteral(HostPortion(UpstreamAddress(r.attributes)))}

\* the requests from which extractUpstreamIP gets no address
AbsentRequests == {r \in SessionRequests : extractUpstreamIP(r.attributes) = ""}

IsHeaders(i) == reqs[i].phase = "RequestHeaders"
HeaderRequests == {i \in 1..Len(reqs) : IsHeaders(i)}
SendsFor(i) == {k \in 1..Len(sends) : sends[k].req = i}
IsContinue(m) == m.kind = "RequestHeaders" /\ m.status = "CONTINUE"
IsForbidden(m, reason) ==
    /\ m.kind = "ImmediateResponse"
    /\ m.code = 403
    /\ m.body = reason
    /\ m.metadata = [present |-> TRUE, blocked |-> TRUE, reason |-> reason]

\* the session is past request i: its iteration reached the end of the loop body
MovedOn(i) == i < Len(reqs) \/ (i = Len(reqs) /\ pc # "send")

-----------------------------------------------------------------------------
(* Properties of the session, under Spec                                   *)

\* C1: a Continue response has been handed to Send only for a header-phase
\* request whose upstream.address is present and non-empty and whose host
\* portion is a valid IP literal of no denylisted class.
C1_ContinueOnlyForSafeHost ==
    \A k \in 1..Len(sends) :
        IsContinue(sends[k].msg) =>
            /\ IsHeaders(sends[k].req)
            /\ reqs[sends[k].req] \in SafeHostRequests

C1_Witness ==
    \E k \in 1..Len(sends) : IsContinue(sends[k].msg) /\ ~sends[k].err

\* C2: every header-phase request gets exactly one Send before the next Recv:
\* none while its iteration is at the Send, one from then on, never two; at a
\* Recv every header-phase request received so far has its one Send.
C2_ReadRespondAlternation ==
    /\ \A i \in HeaderRequests :
          Cardinality(SendsFor(i)) = IF MovedOn(i) THEN 1 ELSE 0
    /\ pc = "recv" => \A i \in HeaderRequests : Cardinality(SendsFor(i)) = 1

C2_Witness ==
    /\ Len(reqs) = 2
    /\ HeaderRequests = {1, 2}
    /\ pc = "send"
    /\ Cardinality(SendsFor(1)) = 1

\* the k-th header-phase request received
NthHeader(k) ==
    CHOOSE i \in HeaderRequests : Cardinality({j \in HeaderRequests : j <= i}) = k

\* C3: when the peer has sent N header-phase requests among its messages and
\* closed, exactly N Sends were performed, the k-th for the k-th header-phase
\* request and carrying the verdict for its address.
C3_ExactlyNResponses ==
    result = "nil" =>
        /\ Len(sends) = Cardinality(HeaderRequests)
        /\ \A k \in 1..Len(sends) :
              /\ sends[k].req = NthHeader(k)
              /\ IsContinue(sends[k].msg) <=> DecisionOf[reqs[NthHeader(k)]].safe

\* C4: the response for a header-phase request is Continue when the verdict
\* allows, and else an ImmediateResponse with status Forbidden, the reason as
\* body and the metadata blocked=true, reason=<the reason>; nothing else.
C4_ResponseShape ==
    \A k \in 1..Len(sends) :
        IsHeaders(sends[k].req) =>
            IF DecisionOf[reqs[sends[k].req]].safe
            THEN IsContinue(sends[k].msg) /\ sends[k].msg.code = 0
            ELSE IsForbidden(sends[k].msg, DecisionOf[reqs[sends[k].req]].reason)

C4_Witness ==
    /\ Len(sends) = 2
    /\ IsContinue(sends[1].msg)
    /\ sends[2].msg.kind = "ImmediateResponse"
    /\ sends[2].msg.body = "private network address is blocked (RFC1918)"

\* C5 as stated: once the session is past a blocked header-phase request, a
\* Forbidden ImmediateResponse with the reason has been delivered for it.
C5_BlockedAlwaysDelivered ==
    \A i \in HeaderRequests :
        (~DecisionOf[reqs[i]].safe /\ MovedOn(i)) =>
            \E k \in SendsFor(i) :
                /\ ~sends[k].err
                /\ IsForbidden(sends[k].msg, DecisionOf[reqs[i]].reason)

\* C5 as amended: once the session is past a blocked header-phase request,
\* exactly one Send was performed for it, of a Forbidden ImmediateResponse
\* with the reason; that Send may have failed, and then nothing was delivered.
C5_BlockedAlwaysAnswered ==
    \A i \in HeaderRequests :
        (~DecisionOf[reqs[i]].safe /\ MovedOn(i)) =>
            /\ Cardinality(SendsFor(i)) = 1
            /\ \A k \in SendsFor(i) :
                  IsForbidden(sends[k].msg, DecisionOf[reqs[i]].reason)

C5_Witness ==
    \E i \in HeaderRequests :
        /\ ~DecisionOf[reqs[i]].safe
        /\ MovedOn(i)
        /\ pc = "recv"
        /\ \E k \in SendsFor(i) : sends[k].err

\* C6: a header-phase request from which extractUpstreamIP gets "" is
\* answered with a Forbidden ImmediateResponse whose reason mentions
\* "unable to extract", never with Continue.
C6_AbsentAddressDenied ==
    \A k \in 1..Len(sends) :
        (IsHeaders(sends[k].req) /\ reqs[sends[k].req] \in AbsentRequests) =>
            /\ sends[k].msg.kind = "ImmediateResponse"
            /\ sends[k].msg.code = 403
            /\ Mentions(sends[k].msg.body, "unable to extract")
            /\ sends[k].msg.metadata.blocked
            /\ Mentions(sends[k].msg.metadata.reason, "unable to extract")
            /\ ~IsContinue(sends[k].msg)

C6_Witness ==
    \E k \in 1..Len(sends) :
        /\ IsHeaders(sends[k].req)
        /\ reqs[sends[k].req].attributes = NilAttributes
        /\ sends[k].msg.kind = "ImmediateResponse"
        /\ ~sends[k].err

------------------------------------------------------------------------\* C11: no Send is performed for a message of a phase other than
\* request-headers.
C11_NoSendForOtherPhases ==
    \A k \in 1..Len(sends) : IsHeaders(sends[k].req)

\* the Sends performed when the context was already canceled
SendsAfterCancel == {k \in 1..Len(sends) : sends[k].afterCancel}

\* C12 as stated: no Send is performed after the cancellation.
C12_NoSendAfterCancel == SendsAfterCancel = {}

\* C12 as amended: after the cancellation at most one more Send is performed,
\* that of the iteration already past its cancellation check, and it is the
\* last Send of the stream.
C12_OneLastSendAfterCancel ==
    /\ Cardinality(SendsAfterCancel) <= 1
    /\ SendsAfterCancel \subseteq {Len(sends)}
    /\ (SendsAfterCancel # {} /\ pc = "done") => result = "ctx.Err"

C12_Witness ==
    /\ SendsAfterCancel = {2}
    /\ ~sends[1].afterCancel
    /\ result = "ctx.Err"

\* C13: Process returns nil on EOF, the context's error whenever the context
\* was canceled, and the transport-failure status only when a receive fails
\* on a stream whose context is not canceled.
C13_ResultByCause ==
    /\ result = "ctx.Err" => canceled
    /\ result = "status.Unknown" => ~canceled

\* C16: a Send that returns an error does not end the session: Process does
\* not return there and goes on to the next cancellation check.
C16_SendFailureContinues ==
    [][(pc = "send" /\ Len(sends') = Len(sends) + 1 /\ sends'[Len(sends')].err)
          => (pc' = "select" /\ result' = "running")]_vars

C16_Witness ==
    /\ Len(sends) = 2
    /\ sends[1].err
    /\ ~sends[2].err
    /\ IsContinue(sends[2].msg)

\* C17: once the context is canceled Process returns, after at most one more
\* loop iteration.
C17_NoSpinOnDeadStream ==
    /\ canceled ~> pc = "done"
    /\ [](Cardinality(SendsAfterCancel) <= 1)

C17_Witness ==
    /\ canceled
    /\ pc = "done"
    /\ Len(sends) = 1
    /\ sends[1].afterCancel
    /\ sends[1].err

\* the header-phase requests whose upstream.address host is an IPv6 literal
IPv6HostRequests ==
    {r \in SessionRequests :
        /\ r.phase = "RequestHeaders"
        /\ UpstreamAddress(r.attributes) # ""
        /\ IndexByte(HostPortion(UpstreamAddress(r.attributes)), ":") # 0
        /\ ParseIP(HostPortion(UpstreamAddress(r.attributes))) # NilIP}

\* the requests whose upstream.address host is a dotted-quad IPv4 literal
DottedQuadRequests ==
    {r \in SessionRequests :
        parseIPv4Fields(HostPortion(UpstreamAddress(r.attributes))) # NilIP}

\* C19: a header-phase request whose upstream.address host is an IPv6 literal
\* is answered with a Forbidden ImmediateResponse, never with Continue; only
\* a dotted-quad IPv4 host gets Continue.
C19_IPv6AlwaysForbidden ==
    \A k \in 1..Len(sends) :
        /\ (IsHeaders(sends[k].req) /\ reqs[sends[k].req] \in IPv6HostRequests) =>
              /\ sends[k].msg.kind = "ImmediateResponse"
              /\ sends[k].msg.code = StatusCode_Forbidden
              /\ ~IsContinue(sends[k].msg)
        /\ IsContinue(sends[k].msg) => reqs[sends[k].req] \in DottedQuadRequests

C19_Witness ==
    \E k \in 1..Len(sends) :
        /\ UpstreamAddress(reqs[sends[k].req].attributes) = "[2001:4860:4860::8888]:443"
        /\ sends[k].msg.kind = "ImmediateResponse"
        /\ sends[k].msg.body = "invalid IP address"
        /\ ~sends[k].err

-----------------------------------------------------------------------------
(* Properties of the host, under SpecHost.                                   *)

\* every Send of the host: the stream and the index in its sends
HostSends ==
    UNION {{<<s, k>> : k \in 1..Len(streams[s].sends)} : s \in Streams}

SentRequest(a) == streams[a[1]].reqs[streams[a[1]].sends[a[2]].req]
SentMessage(a) == streams[a[1]].sends[a[2]].msg

\* C14: the response sent for a header-phase request is a function of the
\* request's attributes alone: any two header-phase requests with the same
\* attributes, on one stream or on two, whatever was received, failed,
\* canceled or ended before, are sent the same message; and a step of one
\* session changes nothing of another session.
C14_StreamsIndependent ==
    /\ [](\A a, b \in HostSends :
            (/\ SentRequest(a).phase = "RequestHeaders"
             /\ SentRequest(b).phase = "RequestHeaders"
             /\ SentRequest(a).attributes = SentRequest(b).attributes)
                => SentMessage(a) = SentMessage(b))
    /\ [][\A s, u \in Streams :
            (s # u /\ streams'[s] # streams[s]) => streams'[u] = streams[u]]_vars

C14_Witness ==
    /\ streams["s1"].result = "status.Unknown"
    /\ Len(streams["s1"].sends) = 1
    /\ streams["s1"].sends[1].err
    /\ streams["s2"].canceled
    /\ Len(streams["s2"].sends) = 1
    /\ streams["s2"].sends[1].afterCancel
    /\ streams["s2"].reqs[1] = streams["s1"].reqs[1]
    /\ IsContinue(streams["s1"].sends[1].msg)
    /\ streams["s2"].sends[1].msg = streams["s1"].sends[1].msg

-----
(* Properties of the two pure functions, under SpecFn                      *)

\* C7: isUpstreamIPSafe returns (true, "") exactly for a non-empty valid IP
\* literal of no denylisted class, and the reason is non-empty exactly when
\* the verdict is deny.
C7_ClassifierExact ==
    call.fn = "isUpstreamIPSafe" =>
        /\ call.verdict.safe <=> SafeLiteral(call.ipStr)
        /\ call.verdict.reason # "" <=> ~call.verdict.safe

\* C8: the two cloud-metadata addresses are denied with a reason that
\* mentions the metadata service.
C8_MetadataReason ==
    (call.fn = "isUpstreamIPSafe" /\ call.ipStr \in {"169.254.169.254", "fd00:ec2::254"}) =>
        /\ ~call.verdict.safe
        /\ Mentions(call.verdict.reason, "metadata")

\* C9: an IPv4 literal and its IPv4-mapped IPv6 form "::ffff:" + a get the
\* same allow/deny outcome.
C9_MappedSameOutcome ==
    (call.fn = "isUpstreamIPSafe" /\ parseIPv4Fields(call.ipStr) # NilIP) =>
        call.verdict.safe = isUpstreamIPSafe("::ffff:" \o call.ipStr).safe

C9_Witness ==
    /\ call.fn = "isUpstreamIPSafe"
    /\ call.ipStr = "10.0.0.5"
    /\ ~call.verdict.safe
    /\ ~isUpstreamIPSafe("::ffff:10.0.0.5").safe
    /\ isUpstreamIPSafe("::ffff:8.8.8.8").safe

\* C10: extractUpstreamIP returns the host of the upstream.address value when
\* that host is an IP literal, and "" when the value is absent or empty.
C10_ExtractReturnsHost ==
    call.fn = "extractUpstreamIP" =>
        IF UpstreamAddress(call.attributes) = "" THEN call.ip = ""
        ELSE Denoted(HostPortion(UpstreamAddress(call.attributes))) # NilIP
                => call.ip = HostPortion(UpstreamAddress(call.attributes))

\* C18: an IPv4-mapped literal "::ffff:a.b.c.d" whose embedded address is
\* unsafe is denied with that address's reason behind the prefix
\* "IPv4-mapped IPv6 address blocked: ".
C18_MappedReasonPrefixed ==
    (/\ call.fn = "isUpstreamIPSafe"
     /\ HasPrefix(call.ipStr, "::ffff:")
     /\ parseIPv4Fields(TrimPrefix(call.ipStr, "::ffff:")) # NilIP
     /\ ~isUpstreamIPSafe(TrimPrefix(call.ipStr, "::ffff:")).safe) =>
        /\ ~call.verdict.safe
        /\ call.verdict.reason =
              "IPv4-mapped IPv6 address blocked: "
                  \o isUpstreamIPSafe(TrimPrefix(call.ipStr, "::ffff:")).reason

====
